---- MODULE Spec2Model ----
(***************************************************************************)
(* Model of the dapr kit error packages:                                   *)
(*   package errors : Error, New, the With* options, GRPCStatus, ToHTTP,   *)
(*                    HTTPCode, Description, JSONErrorValue                *)
(*   package status : ConstructError, ConstructErrorInfo,                  *)
(*                    ConstructDaprKitErrorInfo, ConstructResourceInfo     *)
(*                                                                         *)
(* Go maps are reference values, so metadata maps live in a heap and are   *)
(* named by address.  Go strings are TLA+ strings, except format strings   *)
(* (scanned by fmt.Sprintf), which are sequences of one-character strings. *)
(***************************************************************************)
EXTENDS Integers, Sequences, FiniteSets, TLC

VARIABLES heap, de, newArgs, ret

vars == <<heap, de, newArgs, ret>>

-----------------------------------------------------------------------------
(* Bounds *)

MaxOpts == 2

MaxLen == 2

-----------------------------------------------------------------------------
(* Program constants *)

Owner == "components-contrib"

Domain == "dapr.io"

unknown == "UNKNOWN_REASON"

unknownHTTPCode == 500

StatusInternalServerError == 500

-----------------------------------------------------------------------------
(* Values *)

\* the nil pointer / nil interface value
Nil == [nil |-> TRUE]

\* gRPC codes used by the callers in the model
Codes == {"OK", "Unknown", "NotFound"}

\* map addresses: the nil map, the caller's map, a map allocated by a builder
NilMap == "nilmap"

CallerMap == "caller"

FreshMap == "fresh"

Keys == {"key", "a"}

Vals == {"x"}

\* a map[string]string value: a set of <<key, value>> pairs, one per key
IsMap(m) == \A p \in m, q \in m : p[1] = q[1] => p = q

Maps == {m \in SUBSET (Keys \X Vals) : IsMap(m)}

\* m[k] = v
Put(m, k, v) == {p \in m : p[1] # k} \cup {<<k, v>>}

\* delete(m, k)
Delete(m, k) == {p \in m : p[1] # k}

\* the entries readable through a map reference; a nil map reads as empty
Deref(h, a) == IF a = NilMap THEN {} ELSE h[a]

\* errors.New(msg)
Causes == {[msg |-> "boom"], [msg |-> "not found"]}

ResourceInfos == {[Type |-> "state", Name |-> "redis"]}

-----------------------------------------------------------------------------
(* package errors: options *)

WithErrorReason(reason, httpCode, grpcStatusCode) ==
    [opt |-> "WithErrorReason", reason |-> reason, httpCode |-> httpCode,
     grpcStatusCode |-> grpcStatusCode]

WithResourceInfo(resourceInfo) ==
    [opt |-> "WithResourceInfo", resourceInfo |-> resourceInfo]

WithDescription(description) ==
    [opt |-> "WithDescription", description |-> description]

WithMetadata(md) == [opt |-> "WithMetadata", md |-> md]

UnknownErrorReason == WithErrorReason(unknown, unknownHTTPCode, "Unknown")

\* option(de): the body of the closure each With* function returns
ApplyOption(option, e) ==
    CASE option.opt = "WithErrorReason" ->
           [e EXCEPT !.reason = option.reason,
                     !.grpcStatusCode = option.grpcStatusCode,
                     !.httpCode = option.httpCode]
      [] option.opt = "WithResourceInfo" ->
           [e EXCEPT !.resourceInfo = option.resourceInfo]
      [] option.opt = "WithDescription" ->
           [e EXCEPT !.description = option.description]
      [] option.opt = "WithMetadata" ->
           [e EXCEPT !.metadata = option.md]

RECURSIVE ApplyOptionsFirstWins(_, _)
\* ApplyOptions walking the options from the last to the first, so that the
\* first option targeting a field wins
ApplyOptionsFirstWins(options, e) ==
    IF options = <<>> THEN e
    ELSE ApplyOptionsFirstWins(SubSeq(options, 1, Len(options) - 1),
                               ApplyOption(options[Len(options)], e))

RECURSIVE ApplyOptions(_, _)
\* for _, option := range options { option(de) }
ApplyOptions(options, e) ==
    IF options = <<>> THEN e
    ELSE ApplyOptions(Tail(options), ApplyOption(Head(options), e))

\* New without the nil check on err
NewNoNilCheck(err, metadata, options) ==
    ApplyOptions(options,
       [err |-> err, description |-> "", reason |-> unknown,
        httpCode |-> unknownHTTPCode, grpcStatusCode |-> "Unknown",
        metadata |-> NilMap, resourceInfo |-> Nil])

\* New leaving every field but err at its zero value
NewZeroDefaults(err, metadata, options) ==
    IF err = Nil THEN Nil
    ELSE ApplyOptions(options,
           [err |-> err, description |-> "", reason |-> "",
            httpCode |-> 0, grpcStatusCode |-> "OK",
            metadata |-> NilMap, resourceInfo |-> Nil])

\* New(err, metadata, options...)
New(err, metadata, options) ==
    IF err = Nil THEN Nil
    ELSE ApplyOptions(options,
           [err |-> err, description |-> "", reason |-> unknown,
            httpCode |-> unknownHTTPCode, grpcStatusCode |-> "Unknown",
            metadata |-> NilMap, resourceInfo |-> Nil])

\* (e *Error).Description()
Description(e) == IF e.description # "" THEN e.description ELSE e.err.msg

\* (e *Error).HTTPCode()
HTTPCode(e) == IF e.httpCode = 0 THEN StatusInternalServerError ELSE e.httpCode

-----------------------------------------------------------------------------
(* detail records and the status library *)

\* newErrorInfo(reason, md): the record keeps the reference md
newErrorInfo(reason, md) ==
    [type |-> "ErrorInfo", Domain |-> Domain, Reason |-> reason, Metadata |-> md]

\* newResourceInfo(rid, err)
newResourceInfo(rid, err) ==
    [type |-> "ResourceInfo", ResourceType |-> rid.Type,
     ResourceName |-> rid.Name, Owner |-> Owner, Description |-> err.msg]

\* status.New(c, msg)
StatusNew(c, msg) == [code |-> c, message |-> msg, details |-> <<>>]

\* anypb marshalling of one detail: the bytes hold the map's entries as they
\* are at the time of the call
Pack(h, m) ==
    IF m.type = "ResourceInfo" THEN m
    ELSE [type |-> m.type, Domain |-> m.Domain, Reason |-> m.Reason,
          Metadata |-> Deref(h, m.Metadata)]

\* (s *Status).WithDetails(messages...): refuses code OK, fails when a detail
\* cannot be encoded (encOk is the encoder's outcome)
WithDetails(s, h, messages, encOk) ==
    IF s.code = "OK" \/ ~encOk
    THEN [ste |-> Nil, stErr |-> TRUE]
    ELSE [ste |-> [s EXCEPT !.details =
                     [i \in 1..Len(messages) |-> Pack(h, messages[i])]],
          stErr |-> FALSE]

\* GRPCStatus putting the ResourceInfo detail before the ErrorInfo detail
GRPCStatusResourceFirst(e, h, encOk) ==
    LET messages == IF e.resourceInfo # Nil
                    THEN <<newResourceInfo(e.resourceInfo, e.err),
                           newErrorInfo(e.reason, e.metadata)>>
                    ELSE <<newErrorInfo(e.reason, e.metadata)>>
        r == WithDetails(StatusNew(e.grpcStatusCode, e.description), h,
                         messages, encOk)
    IN IF r.stErr THEN StatusNew(e.grpcStatusCode, e.description) ELSE r.ste

\* GRPCStatus returning what WithDetails returned, without the fallback
GRPCStatusNoFallback(e, h, encOk) ==
    LET messages == IF e.resourceInfo # Nil
                    THEN <<newErrorInfo(e.reason, e.metadata),
                           newResourceInfo(e.resourceInfo, e.err)>>
                    ELSE <<newErrorInfo(e.reason, e.metadata)>>
        r == WithDetails(StatusNew(e.grpcStatusCode, e.description), h,
                         messages, encOk)
    IN r.ste

\* (e *Error).GRPCStatus()
GRPCStatus(e, h, encOk) ==
    LET messages == IF e.resourceInfo # Nil
                    THEN <<newErrorInfo(e.reason, e.metadata),
                           newResourceInfo(e.resourceInfo, e.err)>>
                    ELSE <<newErrorInfo(e.reason, e.metadata)>>
        r == WithDetails(StatusNew(e.grpcStatusCode, e.description), h,
                         messages, encOk)
    IN IF r.stErr THEN StatusNew(e.grpcStatusCode, e.description) ELSE r.ste

\* protojson.Marshal(st.Proto()): the JSON text of the status, or the
\* serializer's error (jsonOk is the serializer's outcome)
Marshal(st, jsonOk) ==
    IF jsonOk THEN [err |-> FALSE, bytes |-> [json |-> st]]
    ELSE [err |-> TRUE, text |-> "proto: marshal error"]

\* (e *Error).ToHTTP()
ToHTTP(e, h, encOk, jsonOk) ==
    LET m == Marshal(GRPCStatus(e, h, encOk), jsonOk)
    IN IF m.err THEN [code |-> StatusInternalServerError, body |-> [raw |-> m.text]]
       ELSE [code |-> e.httpCode, body |-> m.bytes]

\* (e *Error).JSONErrorValue()
JSONErrorValue(e, h, encOk, jsonOk) ==
    LET m == Marshal(GRPCStatus(e, h, encOk), jsonOk)
    IN IF m.err THEN [raw |-> m.text] ELSE m.bytes

-----------------------------------------------------------------------------
(* package status *)

\* the allocator hands out address a for a new map holding m
Alloc(h, a, m) == [x \in DOMAIN h \cup {a} |-> IF x = a THEN m ELSE h[x]]

RECURSIVE CopyInto(_, _)
\* for k, v := range metadata { ei.Metadata[k] = v }
CopyInto(dst, src) ==
    IF src = {} THEN dst
    ELSE LET p == CHOOSE q \in src : TRUE
         IN CopyInto(Put(dst, p[1], p[2]), src \ {p})

\* ConstructErrorInfo(domain, key, reason, metadata); its map literal is
\* allocated at address a
ConstructErrorInfo(h, a, domain, key, reason, metadata) ==
    [ei |-> [type |-> "ErrorInfo", Domain |-> domain, Reason |-> reason,
             Metadata |-> a],
     heap |-> Alloc(h, a, CopyInto({<<"key", key>>}, Deref(h, metadata)))]

\* ConstructDaprKitErrorInfo(domain, key, reason, metadata)
ConstructDaprKitErrorInfo(h, a, domain, key, reason, metadata) ==
    [ei |-> [type |-> "DaprKitErrorInfo", Domain |-> domain, Reason |-> reason,
             Metadata |-> a],
     heap |-> Alloc(h, a, CopyInto({<<"key", key>>}, Deref(h, metadata)))]

\* ConstructResourceInfo(owner, resourceName, description, resourceType)
ConstructResourceInfo(owner, resourceName, description, resourceType) ==
    [type |-> "ResourceInfo", ResourceType |-> resourceType,
     ResourceName |-> resourceName, Owner |-> owner,
     Description |-> description]

\* what fmt prints for a verb that has no operand, and for a lone '%'
MissingArg(verb) ==
    <<"%", "!", verb, "(", "M", "I", "S", "S", "I", "N", "G", ")">>

NoVerb == <<"%", "!", "(", "N", "O", "V", "E", "R", "B", ")">>

RECURSIVE Sprintf(_)
\* fmt.Sprintf(format) with no operands
Sprintf(format) ==
    IF format = <<>> THEN <<>>
    ELSE IF Head(format) # "%" THEN <<Head(format)>> \o Sprintf(Tail(format))
    ELSE IF Len(format) = 1 THEN NoVerb
    ELSE IF format[2] = "%"
         THEN <<"%">> \o Sprintf(SubSeq(format, 3, Len(format)))
         ELSE MissingArg(format[2]) \o Sprintf(SubSeq(format, 3, Len(format)))

\* status.Newf(c, format)
StatusNewf(c, format) == StatusNew(c, Sprintf(format))

\* (s *Status).Err()
StatusErr(s) == IF s.code = "OK" THEN Nil ELSE [statusError |-> s]

\* ConstructError(code, err, key, errDescription, resourceType, reason, owner,
\*                domain, resourceName, metadata)
ConstructError(h, encOk, code, err, key, errDescription, resourceType, reason, owner, domain, resourceName, metadata) ==
    LET r1  == ConstructErrorInfo(h, FreshMap, domain, key, reason, metadata)
        ri  == ConstructResourceInfo(owner, resourceName, errDescription,
                                     resourceType)
        r2  == ConstructDaprKitErrorInfo(r1.heap, "fresh2", domain, key,
                                         reason, metadata)
        r   == WithDetails(StatusNewf(code, errDescription), r2.heap,
                           <<r1.ei, ri, r2.ei>>, encOk)
    IN IF r.stErr THEN err ELSE StatusErr(r.ste)

-----------------------------------------------------------------------------
(* inputs *)

Options ==
    {UnknownErrorReason, WithErrorReason("NOT_FOUND", 404, "NotFound"),
     WithErrorReason("NO_CODE", 0, "OK")}
    \cup {WithResourceInfo(r) : r \in ResourceInfos \cup {Nil}}
    \cup {WithDescription(d) : d \in {"", "desc"}}
    \cup {WithMetadata(a) : a \in {NilMap, CallerMap}}

OptionSeqs == UNION {[1..n -> Options] : n \in 0..MaxOpts}

\* format strings over a plain character and the verb marker
Formats == UNION {[1..n -> {"a", "%"}] : n \in 0..MaxLen}

-----------------------------------------------------------------------------
(* state machine: one Error value from construction through rendering, and  *)
(* the calls into package status, while the caller may write to its map     *)

Init ==
    /\ heap \in [{CallerMap} -> Maps]
    /\ de = Nil
    /\ newArgs = [called |-> FALSE]
    /\ ret = [op |-> "none"]

\* de := New(err, metadata, options...)
CallNew ==
    /\ ~newArgs.called
    /\ \E err \in Causes \cup {Nil}, metadata \in {NilMap, CallerMap},
          options \in OptionSeqs :
        /\ de' = New(err, metadata, options)
        /\ newArgs' = [called |-> TRUE, err |-> err, metadata |-> metadata,
                       options |-> options]
    /\ ret' = [op |-> "New"]
    /\ UNCHANGED heap

\* de.GRPCStatus()
CallGRPCStatus ==
    /\ de # Nil
    /\ \E encOk \in BOOLEAN :
        ret' = [op |-> "GRPCStatus", encOk |-> encOk,
                arg |-> Deref(heap, newArgs.metadata),
                st |-> GRPCStatus(de, heap, encOk)]
    /\ UNCHANGED <<heap, de, newArgs>>

\* de.ToHTTP()
CallToHTTP ==
    /\ de # Nil
    /\ \E encOk \in BOOLEAN, jsonOk \in BOOLEAN :
        ret' = [op |-> "ToHTTP", encOk |-> encOk, jsonOk |-> jsonOk,
                http |-> ToHTTP(de, heap, encOk, jsonOk)]
    /\ UNCHANGED <<heap, de, newArgs>>

\* de.JSONErrorValue()
CallJSONErrorValue ==
    /\ de # Nil
    /\ \E encOk \in BOOLEAN, jsonOk \in BOOLEAN :
        ret' = [op |-> "JSONErrorValue", encOk |-> encOk, jsonOk |-> jsonOk,
                body |-> JSONErrorValue(de, heap, encOk, jsonOk)]
    /\ UNCHANGED <<heap, de, newArgs>>

\* de.HTTPCode()
CallHTTPCode ==
    /\ de # Nil
    /\ ret' = [op |-> "HTTPCode", code |-> HTTPCode(de)]
    /\ UNCHANGED <<heap, de, newArgs>>

\* de.Description()
CallDescription ==
    /\ de # Nil
    /\ ret' = [op |-> "Description", text |-> Description(de)]
    /\ UNCHANGED <<heap, de, newArgs>>

\* ei := newErrorInfo(reason, md); built remembers the entries at that time
CallNewErrorInfo ==
    /\ \E reason \in {unknown, "NOT_FOUND"}, md \in {NilMap, CallerMap} :
        ret' = [op |-> "newErrorInfo", md |-> md,
                ei |-> newErrorInfo(reason, md), built |-> Deref(heap, md)]
    /\ UNCHANGED <<heap, de, newArgs>>

\* the caller writes to, or deletes from, the map it passed in
MutateMap ==
    /\ \E k \in Keys :
        \/ \E v \in Vals : heap' = [heap EXCEPT ![CallerMap] = Put(@, k, v)]
        \/ heap' = [heap EXCEPT ![CallerMap] = Delete(@, k)]
    /\ heap' # heap
    /\ UNCHANGED <<de, newArgs, ret>>

\* ei := ConstructErrorInfo(domain, key, reason, metadata)
CallConstructErrorInfo ==
    /\ \E key \in {"k1", "k2"}, md \in {NilMap, CallerMap} :
        LET r == ConstructErrorInfo(heap, FreshMap, "dom", key, "R", md)
        IN /\ heap' = r.heap
           /\ ret' = [op |-> "ConstructErrorInfo", md |-> md, key |-> key,
                      ei |-> r.ei, built |-> r.heap[FreshMap],
                      arg |-> Deref(heap, md)]
    /\ UNCHANGED <<de, newArgs>>

\* res := ConstructError(code, err, key, errDescription, ...)
CallConstructError ==
    /\ \E encOk \in BOOLEAN, code \in {"OK", "NotFound"},
          err \in {Nil, [msg |-> "boom"]}, errDescription \in Formats,
          md \in {NilMap, CallerMap} :
        ret' = [op |-> "ConstructError", encOk |-> encOk, code |-> code,
                err |-> err, errDescription |-> errDescription, md |-> md,
                arg |-> Deref(heap, md),
                res |-> ConstructError(heap, encOk, code, err, "k1",
                                       errDescription, "state", "R", "own",
                                       "dom", "redis", md)]
    /\ UNCHANGED <<heap, de, newArgs>>

Next ==
    \/ CallNew
    \/ CallGRPCStatus
    \/ CallToHTTP
    \/ CallJSONErrorValue
    \/ CallHTTPCode
    \/ CallDescription
    \/ CallNewErrorInfo
    \/ MutateMap

Spec == Init /\ [][Next]_vars

StatusNext ==
    \/ CallConstructErrorInfo
    \/ CallConstructError
    \/ MutateMap

StatusSpec == Init /\ [][StatusNext]_vars

-----------------------------------------------------------------------------
(* properties *)

\* New has returned a non-nil *Error
Built == newArgs.called /\ newArgs.err # Nil

\* WithDetails attached the details: the code is not OK and encoding worked
Attached(code, encOk) == code # "OK" /\ encOk

\* index of the last option of the given kind, 0 when there is none
LastIdx(options, kind) ==
    LET I == {i \in 1..Len(options) : options[i].opt = kind}
    IN IF I = {} THEN 0 ELSE CHOOSE i \in I : \A j \in I : j <= i

\* C1: New called with a nil cause returns nil, whatever the metadata
\* argument and the options are.
C1_NilCauseReturnsNil ==
    (newArgs.called /\ newArgs.err = Nil) => de = Nil

C1_Witness ==
    /\ newArgs.called /\ newArgs.err = Nil
    /\ newArgs.metadata = CallerMap /\ Len(newArgs.options) = MaxOpts
    /\ de = Nil

\* C2: with a non-nil cause and no WithMetadata option the Error's metadata
\* field is New's metadata argument, and the ErrorInfo detail of GRPCStatus
\* carries that argument's entries.
C2_MetadataArgStored ==
    (Built /\ LastIdx(newArgs.options, "WithMetadata") = 0) =>
        /\ de.metadata = newArgs.metadata
        /\ (ret.op = "GRPCStatus" /\ Attached(de.grpcStatusCode, ret.encOk))
              => ret.st.details[1].Metadata = ret.arg

\* C3: a non-nil cause and no options give reason UNKNOWN_REASON, HTTPCode()
\* 500, gRPC code Unknown, no resourceInfo, Description() = cause's message.
C3_Defaults ==
    (Built /\ newArgs.options = <<>>) =>
        /\ de.reason = "UNKNOWN_REASON"
        /\ HTTPCode(de) = 500
        /\ de.grpcStatusCode = "Unknown"
        /\ de.resourceInfo = Nil
        /\ Description(de) = newArgs.err.msg
        /\ ret.op = "HTTPCode" => ret.code = 500
        /\ ret.op = "Description" => ret.text = newArgs.err.msg
        /\ ret.op = "GRPCStatus" => ret.st.code = "Unknown"

C3_Witness ==
    /\ Built /\ newArgs.options = <<>>
    /\ ret.op = "Description" /\ ret.text = "not found"

\* C4: options are applied in argument order: each field holds what the last
\* option targeting it set, a field no option targets keeps the value New
\* initialised it with, and the cause is never touched.
C4_LastOptionWins ==
    Built =>
        LET o  == newArgs.options
            iR == LastIdx(o, "WithErrorReason")
            iI == LastIdx(o, "WithResourceInfo")
            iD == LastIdx(o, "WithDescription")
            iM == LastIdx(o, "WithMetadata")
        IN /\ de.err = newArgs.err
           /\ de.reason = IF iR = 0 THEN "UNKNOWN_REASON" ELSE o[iR].reason
           /\ de.httpCode = IF iR = 0 THEN 500 ELSE o[iR].httpCode
           /\ de.grpcStatusCode =
                 IF iR = 0 THEN "Unknown" ELSE o[iR].grpcStatusCode
           /\ de.resourceInfo = IF iI = 0 THEN Nil ELSE o[iI].resourceInfo
           /\ de.description = IF iD = 0 THEN "" ELSE o[iD].description
           /\ de.metadata = IF iM = 0 THEN NilMap ELSE o[iM].md

C4_Witness ==
    /\ Built /\ Len(newArgs.options) = 2
    /\ newArgs.options[1].opt = "WithErrorReason"
    /\ newArgs.options[2].opt = "WithErrorReason"
    /\ newArgs.options[1].reason # newArgs.options[2].reason
    /\ de.reason = newArgs.options[2].reason

\* C5: the HTTP status code is never reported as 0, neither by HTTPCode()
\* nor by ToHTTP().
C5_HTTPStatusNeverZero ==
    /\ ret.op = "HTTPCode" => ret.code # 0
    /\ ret.op = "ToHTTP" => ret.http.code # 0

\* C6: the message of the status built by GRPCStatus, and of the JSON body of
\* ToHTTP, equals what Description() returns.
C6_StatusMessageIsDescription ==
    /\ ret.op = "GRPCStatus" => ret.st.message = Description(de)
    /\ (ret.op = "ToHTTP" /\ ret.jsonOk)
          => ret.http.body.json.message = Description(de)

\* the details list C7 describes, read off a rendered status
DetailsAsClaimed(st) ==
    /\ Len(st.details) = IF de.resourceInfo = Nil THEN 1 ELSE 2
    /\ st.details[1].type = "ErrorInfo"
    /\ st.details[1].Domain = "dapr.io"
    /\ st.details[1].Reason = de.reason
    /\ de.resourceInfo # Nil =>
          st.details[2] = [type |-> "ResourceInfo",
                           ResourceType |-> de.resourceInfo.Type,
                           ResourceName |-> de.resourceInfo.Name,
                           Owner |-> "components-contrib",
                           Description |-> de.err.msg]

\* C7: when attaching succeeds the rendered details are [ErrorInfo], or
\* [ErrorInfo, ResourceInfo] in that order when resourceInfo is set, with the
\* fields the claim lists.
C7_DetailsList ==
    /\ (ret.op = "GRPCStatus" /\ Attached(de.grpcStatusCode, ret.encOk))
          => DetailsAsClaimed(ret.st)
    /\ (ret.op = "ToHTTP" /\ ret.jsonOk
          /\ Attached(de.grpcStatusCode, ret.encOk))
          => DetailsAsClaimed(ret.http.body.json)

C7_Witness ==
    /\ ret.op = "ToHTTP" /\ ret.jsonOk
    /\ de.resourceInfo # Nil /\ de.description = "desc"
    /\ Len(ret.http.body.json.details) = 2

\* C8: an ErrorInfo record built from a caller's map holds a fresh copy: its
\* metadata still reads as it did when built, whatever the caller writes to
\* the map afterwards.
C8_RecordIsolated ==
    ret.op \in {"newErrorInfo", "ConstructErrorInfo"}
       => Deref(heap, ret.ei.Metadata) = ret.built

\* C9: rendering absorbs failures: when attaching fails GRPCStatus returns the
\* bare status with the Error's code and description and no details; when
\* serialization fails ToHTTP returns 500 and the serializer's error text.
C9_RenderingTotal ==
    /\ ret.op = "GRPCStatus" =>
          /\ ret.st # Nil
          /\ ret.st.code = de.grpcStatusCode
          /\ ret.st.message = de.description
          /\ ~Attached(de.grpcStatusCode, ret.encOk) => ret.st.details = <<>>
    /\ ret.op = "ToHTTP" =>
          IF ret.jsonOk
          THEN /\ ret.http.body.json.code = de.grpcStatusCode
               /\ ret.http.body.json.message = de.description
               /\ ~Attached(de.grpcStatusCode, ret.encOk)
                     => ret.http.body.json.details = <<>>
          ELSE ret.http = [code |-> 500,
                           body |-> [raw |-> "proto: marshal error"]]

C9_Witness ==
    /\ ret.op = "GRPCStatus" /\ ~ret.encOk
    /\ de.resourceInfo # Nil /\ de.grpcStatusCode = "NotFound"
    /\ ret.st.details = <<>>

\* C10: ConstructError returns a status error with the given code and
\* description carrying ErrorInfo, ResourceInfo, DaprKitErrorInfo in that
\* order when attaching succeeds, and the err argument itself otherwise.
C10_ConstructErrorResults ==
    ret.op = "ConstructError" =>
        IF Attached(ret.code, ret.encOk)
        THEN /\ DOMAIN ret.res = {"statusError"}
             /\ ret.res.statusError.code = ret.code
             /\ ret.res.statusError.message = ret.errDescription
             /\ [i \in 1..3 |-> ret.res.statusError.details[i].type]
                   = <<"ErrorInfo", "ResourceInfo", "DaprKitErrorInfo">>
        ELSE ret.res = ret.err

====
